---- MODULE Spec2Model ----
(***************************************************************************)
(* A model of pyvips/voperation.py: the operation introspection            *)
(* (Introspect), its process-wide cache (Introspect.get), argument         *)
(* setting (Operation.set) and the dynamic invoker (Operation.call) with   *)
(* its reference propagation.                                              *)
(*                                                                         *)
(* The libvips engine is an external collaborator.  It is represented by   *)
(* a small operation registry (vips_object_get_args), by the outcome of    *)
(* set_string and of vips_cache_operation_build (chosen by the engine),    *)
(* and by the native objects it hands out.  The model follows the          *)
(* at_least_libvips(8, 7) branch of Introspect.__init__.                   *)
(*                                                                         *)
(* Four specifications share the module:                                   *)
(*   Spec       one caller thread issuing well-formed Operation.call       *)
(*              invocations and dropping Images between them,              *)
(*   SpecFail   Operation.call over ill-formed inputs too, followed as     *)
(*              far as the build,                                          *)
(*   SpecArgs   Introspect.__init__ over arbitrary argument enumerations,  *)
(*   SpecCache  several threads racing through Introspect.get.             *)
(***************************************************************************)
EXTENDS Naturals, Sequences, FiniteSets

VARIABLES
    (* ---- objects the caller can see ---- *)
    units,              \* Image wrappers: Seq of [refs, nat]
    data,               \* contents of the native objects, by native id
    live,               \* wrappers the caller still holds
    contrib,            \* history: unit -> units among the inputs of its call
    introspect_cache,   \* Introspect._introspect_cache: name -> Introspect
    (* ---- the frame of the Operation.call in progress ---- *)
    pc,
    operation_name,
    args,
    kwargs,
    string_options,
    intro,
    match_image,
    references,
    op,                 \* the VipsOperation being configured / read
    idx,                \* loop position of the current for-loop
    result,
    opts,
    err,
    pre,                \* history: units and data when the call started
    ret,
    (* ---- Introspect.__init__ in isolation (SpecArgs) ---- *)
    a_arguments,        \* self.arguments
    a_intro,            \* the finished Introspect, or NoIntro
    (* ---- threads in Introspect.get (SpecCache) ---- *)
    t_pc,
    t_name,
    t_self,             \* the Introspect under construction
    t_ret

callVars == <<units, data, live, contrib, pc, operation_name, args, kwargs,
              string_options, intro, match_image, references, op, idx,
              result, opts, err, pre, ret>>
argVars == <<a_arguments, a_intro>>
threadVars == <<t_pc, t_name, t_self, t_ret>>
vars == <<callVars, introspect_cache, argVars, threadVars>>

(***************************************************************************)
(* Bounds of the model.                                                    *)
(***************************************************************************)
MaxUnits == 4       \* wrappers that may exist (two exist initially)
MaxArgs == 2        \* construct arguments enumerated in SpecArgs
NThreads == 2       \* threads in SpecCache

(***************************************************************************)
(* VipsArgumentFlags.                                                      *)
(***************************************************************************)
_REQUIRED == 1
_CONSTRUCT == 2
_INPUT == 16
_OUTPUT == 32
_DEPRECATED == 64
_MODIFY == 128

\* (flags & bit) != 0, for bit a power of two
HasFlag(flags, bit) == (flags \div bit) % 2 = 1

RECURSIVE SumSet(_)
SumSet(S) ==
    IF S = {} THEN 0
    ELSE LET x == CHOOSE y \in S : TRUE IN x + SumSet(S \ {x})

(***************************************************************************)
(* Argument names are character sequences, so that the '-' to '_'          *)
(* rewriting of add_args is computed rather than assumed.                  *)
(***************************************************************************)
NameReplace(name) ==
    [i \in 1..Len(name) |-> IF name[i] = "-" THEN "_" ELSE name[i]]

n_in == <<"i", "n">>
n_out == <<"o", "u", "t">>
n_left == <<"l">>
n_right == <<"r">>
n_image == <<"i", "m">>
n_n == <<"n">>
n_bg_raw == <<"b", "-", "g">>
n_bg == <<"b", "_", "g">>
n_extra == <<"x">>
n_old == <<"o", "l", "d">>
n_nick == <<"n", "i", "c", "k">>
n_bogus == <<"z">>

RECURSIVE SeqToSet(_)
SeqToSet(s) == IF s = <<>> THEN {} ELSE {Head(s)} \cup SeqToSet(Tail(s))

InSeq(x, s) == \E i \in 1..Len(s) : s[i] = x

Count(x, s) == Cardinality({i \in 1..Len(s) : s[i] = x})

(***************************************************************************)
(* Introspect.__init__: the classification of the construct arguments.     *)
(***************************************************************************)
\* add_args: keep construct arguments only, with '-' replaced by '_'
add_args(arguments, name, flags) ==
    IF HasFlag(flags, _CONSTRUCT)
    THEN Append(arguments, [name |-> NameReplace(name), flags |-> flags])
    ELSE arguments

RECURSIVE CollectArguments(_, _)
CollectArguments(arguments, vargs) ==
    IF vargs = <<>> THEN arguments
    ELSE CollectArguments(add_args(arguments, Head(vargs).name, Head(vargs).flags),
                          Tail(vargs))

\* op.get_typeof(name): GObject treats '-' and '_' in a property name alike
get_typeof(vargs, nm) ==
    IF \E i \in 1..Len(vargs) : NameReplace(vargs[i].name) = nm
    THEN vargs[CHOOSE i \in 1..Len(vargs) : NameReplace(vargs[i].name) = nm].type
    ELSE "none"

\* self.details: a dict, so a later argument of the same name overwrites
Details(arguments, vargs) ==
    [nm \in {arguments[i].name : i \in 1..Len(arguments)} |->
        LET last == CHOOSE i \in 1..Len(arguments) :
                        /\ arguments[i].name = nm
                        /\ \A j \in (i+1)..Len(arguments) : arguments[j].name # nm
        IN [name |-> nm, flags |-> arguments[last].flags,
            type |-> get_typeof(vargs, nm)]]

IsRequiredInput(flags) ==
    HasFlag(flags, _INPUT) /\ HasFlag(flags, _REQUIRED) /\ ~HasFlag(flags, _DEPRECATED)

IsRequiredOutput(flags) ==
    HasFlag(flags, _OUTPUT) /\ HasFlag(flags, _REQUIRED) /\ ~HasFlag(flags, _DEPRECATED)

IsOptionalInput(flags) == HasFlag(flags, _INPUT) /\ ~HasFlag(flags, _REQUIRED)

IsOptionalOutput(flags) == HasFlag(flags, _OUTPUT) /\ ~HasFlag(flags, _REQUIRED)

\* the loop body without the test of line 114: every required input is also
\* appended to required_output
ClassifyOneIgnoringModify(lists, name, flags) ==
    [required_input |->
        IF IsRequiredInput(flags) THEN Append(lists.required_input, name)
        ELSE lists.required_input,
     required_output |->
        lists.required_output
        \o (IF IsRequiredInput(flags) THEN <<name>> ELSE <<>>)
        \o (IF IsRequiredOutput(flags) THEN <<name>> ELSE <<>>),
     optional_input |->
        IF IsOptionalInput(flags) THEN Append(lists.optional_input, name)
        ELSE lists.optional_input,
     optional_output |->
        IF IsOptionalOutput(flags) THEN Append(lists.optional_output, name)
        ELSE lists.optional_output]

\* one iteration of the loop "for name, flags in self.arguments"
ClassifyOne(lists, name, flags) ==
    [required_input |->
        IF IsRequiredInput(flags) THEN Append(lists.required_input, name)
        ELSE lists.required_input,
     required_output |->
        lists.required_output
        \o (IF IsRequiredInput(flags) /\ HasFlag(flags, _MODIFY) THEN <<name>> ELSE <<>>)
        \o (IF IsRequiredOutput(flags) THEN <<name>> ELSE <<>>),
     optional_input |->
        IF IsOptionalInput(flags) THEN Append(lists.optional_input, name)
        ELSE lists.optional_input,
     optional_output |->
        IF IsOptionalOutput(flags) THEN Append(lists.optional_output, name)
        ELSE lists.optional_output]

EmptyLists ==
    [required_input |-> <<>>, required_output |-> <<>>,
     optional_input |-> <<>>, optional_output |-> <<>>]

RECURSIVE Classify(_, _)
Classify(lists, arguments) ==
    IF arguments = <<>> THEN lists
    ELSE Classify(ClassifyOne(lists, Head(arguments).name, Head(arguments).flags),
                  Tail(arguments))

\* the object Introspect.__init__ leaves behind
MakeIntrospect(name, arguments, vargs) ==
    LET lists == Classify(EmptyLists, arguments)
    IN [name |-> name,
        arguments |-> arguments,
        details |-> Details(arguments, vargs),
        required_input |-> lists.required_input,
        optional_input |-> lists.optional_input,
        required_output |-> lists.required_output,
        optional_output |-> lists.optional_output]

(***************************************************************************)
(* The engine's operation registry: what vips_operation_new accepts and    *)
(* what vips_object_get_args reports, in declaration order.                *)
(***************************************************************************)
F_required_input == _REQUIRED + _CONSTRUCT + _INPUT
F_required_output == _REQUIRED + _CONSTRUCT + _OUTPUT
F_optional_input == _CONSTRUCT + _INPUT
F_optional_output == _CONSTRUCT + _OUTPUT

VArg(name, flags, type) == [name |-> name, flags |-> flags, type |-> type]

KnownOps == {"add", "draw", "join", "write"}

VipsArgs(name) ==
    CASE name = "add" ->
            << VArg(n_nick, _INPUT, "double"),
               VArg(n_left, F_required_input, "image"),
               VArg(n_right, F_required_input, "image"),
               VArg(n_out, F_required_output, "image"),
               VArg(n_bg_raw, F_optional_input, "image"),
               VArg(n_extra, F_optional_output, "double"),
               VArg(n_old, F_optional_input + _DEPRECATED, "double") >>
      [] name = "draw" ->
            << VArg(n_image, F_required_input + _MODIFY, "image") >>
      [] name = "join" ->
            << VArg(n_in, F_required_input, "array_image"),
               VArg(n_out, F_required_output, "array_image"),
               VArg(n_n, F_required_output, "double"),
               VArg(n_extra, F_optional_output, "double") >>
      [] name = "write" ->
            << VArg(n_in, F_required_input, "image"),
               VArg(n_extra, F_optional_output, "double") >>
      [] OTHER -> <<>>

\* Introspect(operation_name) for a name the engine knows
IntrospectTable ==
    [name \in KnownOps |->
        MakeIntrospect(name, CollectArguments(<<>>, VipsArgs(name)), VipsArgs(name))]

Introspect(name) == IntrospectTable[name]

(***************************************************************************)
(* Values: the loosely typed things a caller passes and receives.          *)
(*   "c" a constant, "u" an Image wrapper (n indexes units), "l" a list    *)
(*   or tuple, "d" a dict whose entries are "e" (key, xs = <<value>>),     *)
(*   "none" Python's None.  Inside the engine: "p" an image made from a    *)
(*   constant by _imageize, "m" the private copy of a MODIFY argument (n   *)
(*   is its native object), "bad" something _imageize cannot convert.      *)
(***************************************************************************)
Val(k, n, xs, key) == [k |-> k, n |-> n, xs |-> xs, key |-> key]
None == Val("none", 0, <<>>, <<>>)
C(n) == Val("c", n, <<>>, <<>>)
U(n) == Val("u", n, <<>>, <<>>)
L(xs) == Val("l", 0, xs, <<>>)
D(entries) == Val("d", 0, entries, <<>>)
E(key, v) == Val("e", 0, <<v>>, key)
P == Val("p", 0, <<>>, <<>>)
M(n) == Val("m", n, <<>>, <<>>)
Bad == Val("bad", 0, <<>>, <<>>)

NoErr == [kind |-> "", op |-> "", key |-> <<>>, expected |-> 0, given |-> 0]
NoOp == [name |-> "", log |-> <<>>, sets |-> <<>>, reads |-> <<>>]
NoPre == [units |-> <<>>, data |-> <<>>]

Threads == 1..NThreads

\* two Images the caller made from memory, each keeping its own buffer alive
InitialUnits == << [refs |-> {1}, nat |-> 1], [refs |-> {2}, nat |-> 2] >>

CallInit ==
    /\ units = InitialUnits
    /\ data = <<0, 0>>
    /\ live = {1, 2}
    /\ contrib = << {}, {} >>
    /\ pc = "idle"
    /\ operation_name = ""
    /\ args = <<>>
    /\ kwargs = <<>>
    /\ string_options = ""
    /\ intro = <<>>
    /\ match_image = None
    /\ references = {}
    /\ op = NoOp
    /\ idx = 0
    /\ result = <<>>
    /\ opts = <<>>
    /\ err = NoErr
    /\ pre = NoPre
    /\ ret = None

ArgInit ==
    /\ a_arguments = <<>>
    /\ a_intro = <<>>

ThreadInit ==
    /\ t_pc = [t \in Threads |-> "idle"]
    /\ t_name = [t \in Threads |-> ""]
    /\ t_self = [t \in Threads |-> <<>>]
    /\ t_ret = [t \in Threads |-> <<>>]

Init ==
    /\ CallInit
    /\ introspect_cache = <<>>
    /\ ArgInit
    /\ ThreadInit

\* the dict d with d[key] = value
DictSet(d, key, value) ==
    [k \in DOMAIN d \cup {key} |-> IF k = key THEN value ELSE d[k]]

ErrNoSuchOperation(name) == [NoErr EXCEPT !.kind = "no such operation", !.op = name]

(***************************************************************************)
(* _find_inside(pred, thing).  The three predicates the file passes are    *)
(* named: "is_image" (the lambda of call), "add_reference" and             *)
(* "set_reference" (both always return False and act on the Images they    *)
(* are shown).  The result carries what was returned and, in order, the    *)
(* things pred was applied to.                                             *)
(***************************************************************************)
PredHolds(pred, thing) == pred = "is_image" /\ thing.k = "u"

\* lines 27-38 without the descent into lists (lines 31-36)
_find_inside_shallow(pred, thing) ==
    IF PredHolds(pred, thing)
    THEN [result |-> thing, visited |-> <<thing>>]
    ELSE [result |-> None, visited |-> <<thing>>]

RECURSIVE _find_inside(_, _)
RECURSIVE find_inside_loop(_, _, _)
_find_inside(pred, thing) ==
    IF PredHolds(pred, thing)
    THEN [result |-> thing, visited |-> <<thing>>]
    ELSE IF thing.k = "l"
         THEN find_inside_loop(pred, thing.xs, <<thing>>)
         ELSE [result |-> None, visited |-> <<thing>>]

\* for x in thing: result = _find_inside(pred, x); return it unless None
find_inside_loop(pred, xs, visited) ==
    IF xs = <<>>
    THEN [result |-> None, visited |-> visited]
    ELSE LET r == _find_inside(pred, Head(xs))
         IN IF r.result # None
            THEN [result |-> r.result, visited |-> visited \o r.visited]
            ELSE find_inside_loop(pred, Tail(xs), visited \o r.visited)

\* add_reference replacing references by x._references instead of updating
add_reference_overwriting(refs, x, us) ==
    IF x.k = "u" THEN us[x.n].refs ELSE refs

\* add_reference applied to one thing: references.update(x._references)
add_reference(refs, x, us) ==
    IF x.k = "u" THEN refs \cup us[x.n].refs ELSE refs

RECURSIVE AddReferences(_, _, _)
AddReferences(refs, visited, us) ==
    IF visited = <<>> THEN refs
    ELSE AddReferences(add_reference(refs, Head(visited), us), Tail(visited), us)

\* _find_inside(add_reference, value)
CollectReferences(refs, value, us) ==
    AddReferences(refs, _find_inside("add_reference", value).visited, us)

\* set_reference applied to one thing: x._references.update(references)
set_reference(us, x, refs) ==
    IF x.k = "u"
    THEN [us EXCEPT ![x.n].refs = @ \cup refs]
    ELSE us

RECURSIVE SetReferences(_, _, _)
SetReferences(us, visited, refs) ==
    IF visited = <<>> THEN us
    ELSE SetReferences(set_reference(us, Head(visited), refs), Tail(visited), refs)

\* _find_inside(set_reference, value)
AttachReferences(us, value, refs) ==
    SetReferences(us, _find_inside("set_reference", value).visited, refs)

(***************************************************************************)
(* Operation.set.  Image._imageize, Image.copy / copy_memory and the       *)
(* typed VipsObject.set live outside this file.                            *)
(***************************************************************************)
IsConstant(v) ==
    \/ v.k = "c"
    \/ v.k = "l" /\ \A i \in 1..Len(v.xs) : v.xs[i].k = "c"

\* Image._imageize(match_image, value)
Imageize(value) ==
    IF value.k = "u" THEN value
    ELSE IF IsConstant(value) THEN P
    ELSE Bad

\* what GValue.set accepts for a declared type
TypeAccepts(gtype, v) ==
    CASE gtype = "image" -> v.k \in {"u", "p", "m"}
      [] gtype = "array_image" ->
            v.k = "l" /\ \A i \in 1..Len(v.xs) : v.xs[i].k \in {"u", "p"}
      [] gtype = "double" -> v.k = "c"
      [] OTHER -> FALSE

\* lines 170-177: constants become images of the match image's shape
Promote(gtype, mi, value) ==
    IF mi = None THEN value
    ELSE IF gtype = "image" THEN Imageize(value)
    ELSE IF gtype = "array_image"
         THEN IF value.k = "l"
              THEN L([i \in 1..Len(value.xs) |-> Imageize(value.xs[i])])
              ELSE Bad
    ELSE value

\* Operation.set without the copy of a MODIFY argument
OperationSetNoCopy(flags, gtype, mi, value, fresh) ==
    LET v == Promote(gtype, mi, value)
    IN [ok |-> TypeAccepts(gtype, v), handed |-> v, copied |-> FALSE]

\* Operation.set: the value handed to the engine; fresh names the native
\* object value.copy().copy_memory() would create
OperationSet(flags, gtype, mi, value, fresh) ==
    LET v == Promote(gtype, mi, value)
    IN IF HasFlag(flags, _MODIFY)
       THEN IF v.k \in {"u", "p"}
            THEN [ok |-> TypeAccepts(gtype, M(fresh)), handed |-> M(fresh), copied |-> TRUE]
            ELSE [ok |-> FALSE, handed |-> Bad, copied |-> FALSE]
       ELSE [ok |-> TypeAccepts(gtype, v), handed |-> v, copied |-> FALSE]

\* the pixels a copy starts from
SourceData(mi, gtype, value) ==
    LET v == Promote(gtype, mi, value)
    IN IF v.k = "u" THEN data[units[v.n].nat] ELSE 0

(***************************************************************************)
(* Errors raised by Operation.call.                                        *)
(***************************************************************************)
ErrArity(name, expected, given) ==
    [NoErr EXCEPT !.kind = "needs arguments", !.op = name,
                  !.expected = expected, !.given = given]
ErrUnableToCall(name) == [NoErr EXCEPT !.kind = "unable to call", !.op = name]
ErrNoOption(name, key) ==
    [NoErr EXCEPT !.kind = "does not support optional argument",
                  !.op = name, !.key = key]
ErrKey(key) == [NoErr EXCEPT !.kind = "KeyError", !.key = key]
ErrType(name, key) == [NoErr EXCEPT !.kind = "TypeError", !.op = name, !.key = key]

\* op.set_string(string_options): the engine parses the option string
StringOptions == {"", "[bad"}
set_string(so) == so = ""

Ev(ev, name) == [ev |-> ev, name |-> name]

\* lines 206-218 with the option string tried before the arity check
CallChecksOptionsFirst(name, a, so) ==
    IF name \notin KnownOps THEN ErrNoSuchOperation(name)
    ELSE IF ~set_string(so) THEN ErrUnableToCall(name)
    ELSE IF Len(Introspect(name).required_input) # Len(a)
         THEN ErrArity(name, Len(Introspect(name).required_input), Len(a))
    ELSE NoErr

\* lines 206-218: the first error of new_from_name, the arity check and
\* set_string, or NoErr
CallChecks(name, a, so) ==
    IF name \notin KnownOps THEN ErrNoSuchOperation(name)
    ELSE IF Len(Introspect(name).required_input) # Len(a)
         THEN ErrArity(name, Len(Introspect(name).required_input), Len(a))
    ELSE IF ~set_string(so) THEN ErrUnableToCall(name)
    ELSE NoErr

\* where control goes once i items of a loop are done: into the loop again,
\* or on to the next loop that has anything to do
AfterRequired(n, i, kw) ==
    IF i < n THEN "required" ELSE IF Len(kw) > 0 THEN "kwargs" ELSE "build"

frameVars == <<operation_name, args, kwargs, string_options, intro, match_image,
               references, op, idx, result, opts, err, pre, ret>>

\* Operation.call, lines 203-229: from entry to the empty reference set.
\* Introspect.get hands back Introspect(name) whether the entry was cached or
\* built; the cache itself is followed in SpecCache.  A call is started only
\* while a wrapper for its output can still be made.
Call(name, a, kw, so) ==
    /\ pc = "idle"
    /\ Len(units) < MaxUnits
    /\ operation_name' = name
    /\ args' = a
    /\ kwargs' = kw
    /\ string_options' = so
    /\ pre' = [units |-> units, data |-> data]
    /\ err' = CallChecks(name, a, so)
    /\ intro' = IF name \in KnownOps THEN << Introspect(name) >> ELSE <<>>
    /\ op' = [NoOp EXCEPT
                !.name = name,
                !.log = IF err'.kind \in {"", "unable to call"}
                        THEN << Ev("set_string", <<>>) >> ELSE <<>>]
    /\ match_image' = IF err' = NoErr THEN _find_inside("is_image", L(a)).result
                      ELSE None
    /\ pc' = IF err' = NoErr THEN AfterRequired(Len(a), 0, kw) ELSE "failed"
    /\ idx' = 1
    /\ references' = {}
    /\ UNCHANGED <<units, data, live, contrib, introspect_cache, result, opts,
                   ret, argVars, threadVars>>

\* one argument goes through add_reference and op.set (lines 238-239, 255-256)
SetArgument(name, value, nextpc) ==
    LET details == intro[1].details[name]
        fresh == Len(data) + 1
        s == OperationSet(details.flags, details.type, match_image, value, fresh)
    IN /\ references' = CollectReferences(references, value, units)
       /\ data' = IF s.copied
                  THEN Append(data, SourceData(match_image, details.type, value))
                  ELSE data
       /\ op' = [op EXCEPT
                   !.log = Append(@, Ev("set", name)),
                   !.sets = Append(@, [name |-> name, flags |-> details.flags,
                                       handed |-> s.handed])]
       /\ IF s.ok
          THEN /\ pc' = nextpc
               /\ err' = err
          ELSE /\ pc' = "failed"
               /\ err' = ErrType(operation_name, name)

\* the loop over zip(intro.required_input, args), lines 237-239
SetRequired ==
    /\ pc = "required"
    /\ SetArgument(intro[1].required_input[idx], args[idx],
                   AfterRequired(Len(args), idx, kwargs))
    /\ idx' = IF pc' = pc THEN idx + 1 ELSE 1
    /\ UNCHANGED <<units, live, contrib, introspect_cache, operation_name, args,
                   kwargs, string_options, intro, match_image, result, opts,
                   pre, ret, argVars, threadVars>>

\* the loop over kwargs, lines 242-256
SetKwarg ==
    /\ pc = "kwargs"
    /\ LET name == kwargs[idx].name
       IN IF name \notin DOMAIN intro[1].details
          THEN \* details = intro.details[name] raises KeyError
               /\ pc' = "failed"
               /\ err' = ErrKey(name)
               /\ UNCHANGED <<references, data, op, idx>>
          ELSE IF /\ ~InSeq(name, intro[1].optional_input)
                  /\ ~InSeq(name, intro[1].optional_output)
          THEN /\ pc' = "failed"
               /\ err' = ErrNoOption(operation_name, name)
               /\ UNCHANGED <<references, data, op, idx>>
          ELSE /\ SetArgument(name, kwargs[idx].value,
                              IF idx < Len(kwargs) THEN "kwargs" ELSE "build")
               /\ idx' = IF pc' = pc THEN idx + 1 ELSE 1
    /\ UNCHANGED <<units, live, contrib, introspect_cache, operation_name, args,
                   kwargs, string_options, intro, match_image, result, opts,
                   pre, ret, argVars, threadVars>>

\* the native object behind a value handed to the engine (0: none of ours)
NativeOf(v) ==
    IF v.k = "u" THEN units[v.n].nat
    ELSE IF v.k = "m" THEN v.n
    ELSE 0

\* the native objects the engine may write to: those set on MODIFY arguments
Writable ==
    { NativeOf(op.sets[i].handed) :
        i \in {j \in 1..Len(op.sets) : HasFlag(op.sets[j].flags, _MODIFY)} }

DataValues == {0, 1}

KwargNames == {kwargs[i].name : i \in 1..Len(kwargs)}

\* the names of intro.optional_output that pass "if name in kwargs"
Requested == SelectSeq(intro[1].optional_output, LAMBDA n : n \in KwargNames)

AfterOutput(i) ==
    IF i < Len(intro[1].required_output) THEN "outputs"
    ELSE IF Len(Requested) > 0 THEN "optional"
    ELSE "finish"

\* vips_cache_operation_build, lines 259-262; the engine decides whether the
\* build succeeds and what it writes into its MODIFY arguments
Build(ok, d) ==
    /\ pc = "build"
    /\ data' = [n \in DOMAIN data |-> IF n \in Writable THEN d ELSE data[n]]
    /\ op' = [op EXCEPT !.log = Append(@, Ev("build", <<>>))]
    /\ IF ok
       THEN /\ pc' = AfterOutput(0)
            /\ err' = err
       ELSE /\ pc' = "failed"
            /\ err' = ErrUnableToCall(operation_name)
    /\ idx' = 1
    /\ UNCHANGED <<units, live, contrib, introspect_cache, operation_name, args,
                   kwargs, string_options, intro, match_image, references,
                   result, opts, pre, ret, argVars, threadVars>>

(***************************************************************************)
(* Reading outputs.  op.get(name) wraps what the engine holds for name in  *)
(* new Python objects: a new Image around the native object, a list of     *)
(* them, or a number.                                                      *)
(***************************************************************************)
\* history: every Image anywhere in a value
RECURSIVE ImagesIn(_)
ImagesIn(v) ==
    IF v.k = "u" THEN {v.n}
    ELSE IF v.k = "l" THEN UNION {ImagesIn(v.xs[i]) : i \in 1..Len(v.xs)}
    ELSE {}

\* history: the Images among the inputs of the call in progress
InputImages ==
    ImagesIn(L(args)) \cup UNION {ImagesIn(kwargs[i].value) : i \in 1..Len(kwargs)}

\* does op.get(name) create an Image?
GetsImage(name) == intro[1].details[name].type \in {"image", "array_image"}

\* the engine-side object read for name: the one set for a MODIFY input, a new
\* one otherwise
SetFor(name) == {i \in 1..Len(op.sets) : op.sets[i].name = name}

\* op.get(name) followed by _find_inside(set_reference, value), lines 273-274
\* and 281-282: the value, and units / data / contrib afterwards
Fetch(name) ==
    LET type == intro[1].details[name].type
        u == Len(units) + 1
        isSet == SetFor(name) # {}
        native == IF isSet /\ NativeOf(op.sets[CHOOSE i \in SetFor(name) : TRUE].handed) # 0
                  THEN NativeOf(op.sets[CHOOSE i \in SetFor(name) : TRUE].handed)
                  ELSE Len(data) + 1
        value == IF type = "image" THEN U(u)
                 ELSE IF type = "array_image" THEN L(<<U(u)>>)
                 ELSE C(0)
        made == IF GetsImage(name)
                THEN Append(units, [refs |-> {}, nat |-> native])
                ELSE units
    IN [value |-> value,
        units |-> AttachReferences(made, value, references),
        data |-> IF GetsImage(name) /\ native = Len(data) + 1
                 THEN Append(data, 0) ELSE data,
        contrib |-> IF GetsImage(name) THEN Append(contrib, InputImages) ELSE contrib]

\* the loop over intro.required_output, lines 271-275
GetRequired ==
    /\ pc = "outputs"
    /\ LET name == intro[1].required_output[idx]
           f == Fetch(name)
       IN /\ units' = f.units
          /\ data' = f.data
          /\ contrib' = f.contrib
          /\ result' = Append(result, f.value)
          /\ op' = [op EXCEPT !.log = Append(@, Ev("get", name)),
                              !.reads = Append(@, [name |-> name, value |-> f.value])]
    /\ pc' = AfterOutput(idx)
    /\ idx' = IF pc' = pc THEN idx + 1 ELSE 1
    /\ UNCHANGED <<live, introspect_cache, operation_name, args, kwargs,
                   string_options, intro, match_image, references, opts, err,
                   pre, ret, argVars, threadVars>>

\* opts[name] = value
DictPut(entries, key, v) ==
    IF \E i \in 1..Len(entries) : entries[i].key = key
    THEN [i \in 1..Len(entries) |->
            IF entries[i].key = key THEN E(key, v) ELSE entries[i]]
    ELSE Append(entries, E(key, v))

\* the loop over intro.optional_output, lines 278-283, at its next name that
\* is in kwargs
GetOptional ==
    /\ pc = "optional"
    /\ LET name == Requested[idx]
           f == Fetch(name)
       IN /\ units' = f.units
          /\ data' = f.data
          /\ contrib' = f.contrib
          /\ opts' = DictPut(opts, name, f.value)
          /\ op' = [op EXCEPT !.log = Append(@, Ev("get", name)),
                              !.reads = Append(@, [name |-> name, value |-> f.value])]
    /\ pc' = IF idx < Len(Requested) THEN "optional" ELSE "finish"
    /\ idx' = IF pc' = pc THEN idx + 1 ELSE 1
    /\ UNCHANGED <<live, introspect_cache, operation_name, args, kwargs,
                   string_options, intro, match_image, references, result, err,
                   pre, ret, argVars, threadVars>>

\* lines 285-286: the dict of optional outputs goes last in the list
WithOpts(res, os) == IF Len(os) > 0 THEN Append(res, D(os)) ELSE res

\* lines 290-293 without the unwrapping of a single result
ResultShapeNoUnwrap(res) ==
    IF Len(res) = 0 THEN None ELSE L(res)

\* lines 290-293: None, the single result, or the list
ResultShape(res) ==
    IF Len(res) = 0 THEN None
    ELSE IF Len(res) = 1 THEN res[1]
    ELSE L(res)

\* the release forgotten
unref_outputs_forgotten(o) == o

\* vips_object_unref_outputs(op.object), line 288
unref_outputs(o) == [o EXCEPT !.log = Append(@, Ev("unref", <<>>))]

\* lines 285-297
Finish ==
    /\ pc = "finish"
    /\ result' = WithOpts(result, opts)
    /\ op' = unref_outputs(op)
    /\ ret' = ResultShape(result')
    /\ pc' = "done"
    /\ UNCHANGED <<units, data, live, contrib, introspect_cache, operation_name,
                   args, kwargs, string_options, intro, match_image, references,
                   idx, opts, err, pre, argVars, threadVars>>

\* the caller gets the result (or the exception) and the frame is gone
Return ==
    /\ pc \in {"done", "failed"}
    /\ live' = IF pc = "done" THEN live \cup ImagesIn(ret) \cup
                    UNION {ImagesIn(opts[i].xs[1]) : i \in 1..Len(opts)}
               ELSE live
    /\ data' = IF pc = "failed" THEN SubSeq(data, 1, Len(pre.data)) ELSE data
    /\ pc' = "idle"
    /\ operation_name' = ""
    /\ args' = <<>>
    /\ kwargs' = <<>>
    /\ string_options' = ""
    /\ intro' = <<>>
    /\ match_image' = None
    /\ references' = {}
    /\ op' = NoOp
    /\ idx' = 0
    /\ result' = <<>>
    /\ opts' = <<>>
    /\ err' = NoErr
    /\ pre' = NoPre
    /\ ret' = None
    /\ UNCHANGED <<units, contrib, introspect_cache, argVars, threadVars>>

\* the caller drops an Image it derived something from
Discard(u) ==
    /\ pc = "idle"
    /\ u \in live
    /\ \E v \in 1..Len(units) : u \in contrib[v]
    /\ live' = live \ {u}
    /\ UNCHANGED <<units, data, contrib, introspect_cache, pc, frameVars,
                   argVars, threadVars>>

(***************************************************************************)
(* What the caller passes.                                                 *)
(***************************************************************************)
ImageValues == {U(u) : u \in live}
Atoms == {C(1)} \cup ImageValues
Kw(name, value) == [name |-> name, value |-> value]

\* Spec: the right number of arguments and named arguments the operation
\* declares; images, a constant, lists of both
PairLists ==
    {L(<<U(q[1]), U(q[2])>>) : q \in {r \in live \X live : r[1] < r[2]}}
    \cup {L(<<C(1), U(u)>>) : u \in live}
Singles == {<<a>> : a \in Atoms \cup PairLists}
Pairs ==
    {<<U(q[1]), U(q[2])>> : q \in {r \in live \X live : r[1] <= r[2]}}
    \cup {<<C(1), U(u)>> : u \in live}
ArgsFor(name) == IF Len(Introspect(name).required_input) = 2 THEN Pairs ELSE Singles
Declares(name, kw) ==
    \A i \in 1..Len(kw) : kw[i].name \in DOMAIN Introspect(name).details
KwFor(name) ==
    { kw \in {<<>>, <<Kw(n_extra, C(0))>>, <<Kw(n_old, C(1))>>}
             \cup {<<Kw(n_bg, v), Kw(n_extra, C(1))>> : v \in ImageValues} :
        Declares(name, kw) }

Next ==
    \/ \E name \in KnownOps :
         \E a \in ArgsFor(name), kw \in KwFor(name) : Call(name, a, kw, "")
    \/ SetRequired
    \/ SetKwarg
    \/ \E ok \in BOOLEAN, d \in DataValues : Build(ok, d)
    \/ GetRequired
    \/ GetOptional
    \/ Finish
    \/ Return
    \/ \E u \in 1..MaxUnits : Discard(u)

Spec == Init /\ [][Next]_vars

(***************************************************************************)
(* SpecFail: calls with any number of arguments, any option string and     *)
(* undeclared named arguments, followed as far as the build.               *)
(***************************************************************************)
OpNames == KnownOps \cup {"nosuch"}

ListValues ==
    {L(<<a, b>>) : a \in Atoms, b \in ImageValues} \cup {L(<<a>>) : a \in ImageValues}
ArgTuples ==
    {<<>>} \cup {<<a>> : a \in Atoms \cup ListValues}
           \cup {<<a, b>> : a \in Atoms, b \in Atoms}
           \cup {<<C(1), C(1), C(1)>>}
KwTuples ==
    {<<>>}
    \cup {<<Kw(n_bg, v)>> : v \in Atoms}
    \cup {<<Kw(n_extra, C(v))>> : v \in {0, 1}}
    \cup {<<Kw(n, C(1))>> : n \in {n_old, n_in, n_left, n_bg_raw, n_bogus}}
    \cup {<<Kw(n_bg, v), Kw(n_bogus, C(1))>> : v \in ImageValues}

NextFail ==
    \/ \E name \in OpNames, a \in ArgTuples, kw \in KwTuples, so \in StringOptions :
            Call(name, a, kw, so)
    \/ SetRequired
    \/ SetKwarg
    \/ \E ok \in BOOLEAN, d \in DataValues : Build(ok, d)
    \/ Return

SpecFail == Init /\ [][NextFail]_vars

(***************************************************************************)
(* SpecArgs: Introspect.__init__ fed with any enumeration of arguments.    *)
(***************************************************************************)
ArgNames == { <<"a">>, <<"b", "-">>, <<"b", "_">> }

ArgFlags ==
    { SumSet(S) + _CONSTRUCT :
        S \in SUBSET {_REQUIRED, _INPUT, _OUTPUT, _DEPRECATED, _MODIFY} }
    \cup { _REQUIRED + _INPUT }

\* every argument of the enumeration has the type double
DoubleArgs(arguments) ==
    [i \in 1..Len(arguments) |-> VArg(arguments[i].name, arguments[i].flags, "double")]

\* vips_object_get_args reports one more argument; add_args files it
a_add_args(name, flags) ==
    /\ a_intro = <<>>
    /\ Len(a_arguments) < MaxArgs
    /\ a_arguments' = add_args(a_arguments, name, flags)
    /\ UNCHANGED <<a_intro, callVars, introspect_cache, threadVars>>

\* the rest of __init__: details and the four lists
a_classify ==
    /\ a_intro = <<>>
    /\ a_intro' = << MakeIntrospect("op", a_arguments, DoubleArgs(a_arguments)) >>
    /\ UNCHANGED <<a_arguments, callVars, introspect_cache, threadVars>>

NextArgs ==
    \/ \E name \in ArgNames, flags \in ArgFlags : a_add_args(name, flags)
    \/ a_classify

SpecArgs == Init /\ [][NextArgs]_vars

(***************************************************************************)
(* SpecCache: Introspect.get called from several threads.  Each bytecode   *)
(* level step that reads or writes the shared dict is one action; the      *)
(* object under construction is private to its thread until stored.        *)
(***************************************************************************)
CacheNames == {"add", "draw", "nosuch"}

EmptyIntrospect(name) ==
    [name |-> name, arguments |-> <<>>, details |-> <<>>,
     required_input |-> <<>>, optional_input |-> <<>>,
     required_output |-> <<>>, optional_output |-> <<>>]

TOk(x) == << [ok |-> TRUE, intro |-> x, err |-> NoErr] >>
TErr(e) == << [ok |-> FALSE, intro |-> EmptyIntrospect(""), err |-> e] >>

\* a thread enters Introspect.get(operation_name)
get_call(t, name) ==
    /\ t_pc[t] = "idle"
    /\ t_pc' = [t_pc EXCEPT ![t] = "check"]
    /\ t_name' = [t_name EXCEPT ![t] = name]
    /\ t_ret' = [t_ret EXCEPT ![t] = <<>>]
    /\ UNCHANGED <<t_self, callVars, introspect_cache, argVars>>

\* if operation_name not in cls._introspect_cache
get_check(t) ==
    /\ t_pc[t] = "check"
    /\ t_pc' = [t_pc EXCEPT ![t] =
                    IF t_name[t] \in DOMAIN introspect_cache THEN "return" ELSE "new"]
    /\ UNCHANGED <<t_name, t_self, t_ret, callVars, introspect_cache, argVars>>

\* Introspect.__init__: op = Operation.new_from_name(operation_name)
init_new(t) ==
    /\ t_pc[t] = "new"
    /\ IF t_name[t] \in KnownOps
       THEN /\ t_self' = [t_self EXCEPT ![t] = << EmptyIntrospect(t_name[t]) >>]
            /\ t_pc' = [t_pc EXCEPT ![t] = "arguments"]
            /\ UNCHANGED t_ret
       ELSE /\ t_ret' = [t_ret EXCEPT ![t] = TErr(ErrNoSuchOperation(t_name[t]))]
            /\ t_pc' = [t_pc EXCEPT ![t] = "idle"]
            /\ UNCHANGED t_self
    /\ UNCHANGED <<t_name, callVars, introspect_cache, argVars>>

\* Introspect.__init__: self.arguments from vips_object_get_args
init_arguments(t) ==
    /\ t_pc[t] = "arguments"
    /\ t_self' = [t_self EXCEPT ![t] =
            << [t_self[t][1] EXCEPT
                  !.arguments = CollectArguments(<<>>, VipsArgs(t_name[t]))] >>]
    /\ t_pc' = [t_pc EXCEPT ![t] = "details"]
    /\ UNCHANGED <<t_name, t_ret, callVars, introspect_cache, argVars>>

\* Introspect.__init__: self.details
init_details(t) ==
    /\ t_pc[t] = "details"
    /\ t_self' = [t_self EXCEPT ![t] =
            << [t_self[t][1] EXCEPT
                  !.details = Details(t_self[t][1].arguments, VipsArgs(t_name[t]))] >>]
    /\ t_pc' = [t_pc EXCEPT ![t] = "lists"]
    /\ UNCHANGED <<t_name, t_ret, callVars, introspect_cache, argVars>>

\* Introspect.__init__: the four lists
init_lists(t) ==
    /\ t_pc[t] = "lists"
    /\ LET lists == Classify(EmptyLists, t_self[t][1].arguments)
       IN t_self' = [t_self EXCEPT ![t] =
            << [t_self[t][1] EXCEPT
                  !.required_input = lists.required_input,
                  !.optional_input = lists.optional_input,
                  !.required_output = lists.required_output,
                  !.optional_output = lists.optional_output] >>]
    /\ t_pc' = [t_pc EXCEPT ![t] = "store"]
    /\ UNCHANGED <<t_name, t_ret, callVars, introspect_cache, argVars>>

\* the object stored as soon as it exists, before __init__ has finished
ConstructedEarly(t) == t_pc[t] \in {"arguments", "details", "lists", "store"}

\* the constructor has returned: its result may be stored
Constructed(t) == t_pc[t] = "store"

\* cls._introspect_cache[operation_name] = <the new Introspect>
get_store(t) ==
    /\ Constructed(t)
    /\ introspect_cache' = DictSet(introspect_cache, t_name[t], t_self[t][1])
    /\ t_self' = [t_self EXCEPT ![t] = <<>>]
    /\ t_pc' = [t_pc EXCEPT ![t] = "return"]
    /\ UNCHANGED <<t_name, t_ret, callVars, argVars>>

\* return cls._introspect_cache[operation_name]
get_return(t) ==
    /\ t_pc[t] = "return"
    /\ t_ret' = [t_ret EXCEPT ![t] = TOk(introspect_cache[t_name[t]])]
    /\ t_pc' = [t_pc EXCEPT ![t] = "idle"]
    /\ UNCHANGED <<t_name, t_self, callVars, introspect_cache, argVars>>

NextCache ==
    \E t \in Threads :
        \/ \E name \in CacheNames : get_call(t, name)
        \/ get_check(t)
        \/ init_new(t)
        \/ init_arguments(t)
        \/ init_details(t)
        \/ init_lists(t)
        \/ get_store(t)
        \/ get_return(t)

SpecCache == Init /\ [][NextCache]_vars

(***************************************************************************)
(*                              The claims                                 *)
(***************************************************************************)
RECURSIVE Ancestors(_)
Ancestors(u) == contrib[u] \cup UNION {Ancestors(v) : v \in contrib[u]}

Created == (Len(InitialUnits) + 1)..Len(units)

\* C1: every Image's references include the references of every Image that
\* contributed to it, directly or through earlier calls, whether or not the
\* caller still holds the contributors.
C1_ReferencesCoverContributors ==
    \A u \in 1..Len(units) :
        \A v \in Ancestors(u) : units[v].refs \subseteq units[u].refs

\* an Image is held whose indirect contributor and the link between them have
\* both been dropped
C1_Witness ==
    /\ pc = "idle"
    /\ \E u \in live :
         \E w \in contrib[u] :
           \E v \in contrib[w] :
              /\ v \notin contrib[u]
              /\ v \notin live
              /\ w \notin live
              /\ units[v].refs # {}

\* C2: an Image found in an output ends with exactly the references of the
\* Images among the positional and named inputs of its call (the wrapper
\* op.get makes carries none of its own), and no Image that existed before a
\* call has its references changed by it.
C2_OutputReferencesAreUnionOfInputs ==
    /\ \A u \in Created :
          units[u].refs = UNION {units[v].refs : v \in contrib[u]}
    /\ \A u \in 1..Len(InitialUnits) : units[u].refs = InitialUnits[u].refs
    /\ pc # "idle" =>
          \A u \in 1..Len(pre.units) : units[u].refs = pre.units[u].refs

\* add(A, B) with disjoint reference sets has returned C carrying both
C2_Witness ==
    /\ pc = "done"
    /\ operation_name = "add"
    /\ args = <<U(1), U(2)>>
    /\ units[1].refs \cap units[2].refs = {}
    /\ ret.k = "u"
    /\ units[ret.n].refs = units[1].refs \cup units[2].refs
    /\ units[ret.n].refs # units[1].refs

OptionalNames(i) == SeqToSet(i.optional_input) \cup SeqToSet(i.optional_output)

\* the named arguments whose key is neither an optional input nor an optional
\* output of the operation
Offending ==
    {i \in 1..Len(kwargs) : kwargs[i].name \notin OptionalNames(Introspect(operation_name))}

\* C3: a call of a known operation that gets as far as its named arguments
\* and is given a key outside optional_input and optional_output fails with
\* the "does not support optional argument" Error naming operation and key.
C3_UnsupportedOptionReported ==
    ( /\ pc = "failed"
      /\ operation_name \in KnownOps
      /\ CallChecks(operation_name, args, string_options) = NoErr
      /\ err.kind # "TypeError"
      /\ Offending # {} )
    => \E i \in Offending : err = ErrNoOption(operation_name, kwargs[i].name)

\* C4: with a number of positional arguments other than len(required_input)
\* a call of a known operation fails with the arity Error, whatever the other
\* inputs are, and nothing has been applied to the operation.
C4_ArityMismatchFirst ==
    ( /\ pc # "idle"
      /\ operation_name \in KnownOps
      /\ Len(args) # Len(Introspect(operation_name).required_input) )
    => /\ pc = "failed"
       /\ err = ErrArity(operation_name,
                         Len(Introspect(operation_name).required_input), Len(args))
       /\ op.log = <<>>

\* too many arguments together with a bad option string and an undeclared key
C4_Witness ==
    /\ pc = "failed"
    /\ operation_name = "add"
    /\ Len(args) > Len(Introspect("add").required_input)
    /\ string_options = "[bad"
    /\ \E i \in 1..Len(kwargs) : kwargs[i].name = n_bogus
    /\ err.kind = "needs arguments"

\* positions of the required inputs flagged MODIFY
ModifyInputs ==
    {i \in 1..Len(intro[1].required_input) :
        HasFlag(intro[1].details[intro[1].required_input[i]].flags, _MODIFY)}

\* C5: what the engine gets for a MODIFY argument is a new native object no
\* caller-visible Image wraps; the caller's Image keeps its contents; the
\* Image returned for the argument is another wrapper around another object.
C5_ModifyArgumentsAreCopied ==
    (pc \in {"build", "outputs", "optional", "finish", "done"}) =>
        \A i \in ModifyInputs :
            LET name == intro[1].required_input[i]
                handed == op.sets[i].handed
            IN /\ op.sets[i].name = name
               /\ handed.k = "m"
               /\ handed.n > Len(pre.data)
               /\ \A u \in 1..Len(pre.units) : pre.units[u].nat # handed.n
               /\ args[i].k = "u" =>
                     /\ units[args[i].n] = pre.units[args[i].n]
                     /\ data[units[args[i].n].nat] = pre.data[pre.units[args[i].n].nat]
               /\ (pc = "done" /\ args[i].k = "u") =>
                     \A r \in 1..Len(op.reads) :
                        op.reads[r].name = name =>
                           /\ op.reads[r].value.k = "u"
                           /\ op.reads[r].value.n # args[i].n
                           /\ units[op.reads[r].value.n].nat # units[args[i].n].nat

\* draw has returned an Image whose contents differ from the caller's
C5_Witness ==
    /\ pc = "done"
    /\ operation_name = "draw"
    /\ args[1].k = "u"
    /\ ret.k = "u"
    /\ data[units[ret.n].nat] # data[units[args[1].n].nat]

\* C6: when a call fails, every Image that existed before it has the same
\* references, the same native object and the same contents as before, no
\* Image has been added and nothing is returned.
C6_FailureLeavesCallerObjectsAlone ==
    pc = "failed" =>
        /\ units = pre.units
        /\ \A u \in 1..Len(units) : data[units[u].nat] = pre.data[units[u].nat]
        /\ ret = None

\* the build of draw failed after the engine had written into its argument
C6_Witness ==
    /\ pc = "failed"
    /\ operation_name = "draw"
    /\ err = ErrUnableToCall("draw")
    /\ Len(op.log) = 3
    /\ args[1].k = "u"
    /\ Len(data) > Len(pre.data)
    /\ data[Len(data)] # pre.data[units[args[1].n].nat]

\* the optional outputs whose name is a key of kwargs
RequestedNames == SeqToSet(intro[1].optional_output) \cap KwargNames

\* the values read for the required outputs, in required_output order
RequiredValues == [i \in 1..Len(intro[1].required_output) |-> op.reads[i].value]

C7_Common ==
    /\ \A i \in 1..Len(intro[1].required_output) :
          op.reads[i].name = intro[1].required_output[i]
    /\ {opts[i].key : i \in 1..Len(opts)} = RequestedNames
    /\ Len(opts) = Cardinality(RequestedNames)
    /\ (Len(intro[1].required_output) = 1 /\ RequestedNames = {}) =>
          ret = op.reads[1].value
    /\ (Len(intro[1].required_output) = 0 /\ RequestedNames = {}) => ret = None

\* C7 as amended: with required and requested optional outputs the result is
\* one flat list, the required outputs in order and then the dict of optional
\* outputs as its last element; a single required output alone is returned
\* unwrapped; no output gives None; an optional output is produced exactly
\* when its name is a key of kwargs.
C7_ResultShape ==
    pc = "done" =>
        /\ C7_Common
        /\ (Len(intro[1].required_output) >= 1 /\ RequestedNames # {}) =>
              ret = L(RequiredValues \o << D(opts) >>)

\* C7 as stated: with required and requested optional outputs the result is
\* the pair (list of required outputs, dict of optional outputs).
C7_ResultIsPair ==
    pc = "done" =>
        /\ C7_Common
        /\ (Len(intro[1].required_output) >= 1 /\ RequestedNames # {}) =>
              ret = L(<< L(RequiredValues), D(opts) >>)

\* join has returned its two required outputs and the dict in one list
C7_Witness ==
    /\ pc = "done"
    /\ operation_name = "join"
    /\ RequestedNames = {n_extra}
    /\ kwargs[1].value = C(0)
    /\ ret.k = "l"
    /\ Len(ret.xs) = 3
    /\ ret.xs[3] = D(<< E(n_extra, C(0)) >>)

(* ---- C8 ---- *)
ListsOf(i, nm) ==
    {k \in 1..4 :
        InSeq(nm, <<i.required_input, i.required_output,
                    i.optional_input, i.optional_output>>[k])}

NoRepeats(i, nm) ==
    /\ Count(nm, i.required_input) <= 1
    /\ Count(nm, i.required_output) <= 1
    /\ Count(nm, i.optional_input) <= 1
    /\ Count(nm, i.optional_output) <= 1

IsModifiedInput(flags) == IsRequiredInput(flags) /\ HasFlag(flags, _MODIFY)

Partitioned(i) ==
    \A nm \in DOMAIN i.details :
        /\ NoRepeats(i, nm)
        /\ Cardinality(ListsOf(i, nm)) > 1 =>
              /\ IsModifiedInput(i.details[nm].flags)
              /\ ListsOf(i, nm) = {1, 2}
        /\ IsModifiedInput(i.details[nm].flags) => ListsOf(i, nm) = {1, 2}

\* every argument has one direction at most and no two share a name
OneDirectionDistinctNames(arguments) ==
    /\ \A j \in 1..Len(arguments) :
          ~(HasFlag(arguments[j].flags, _INPUT) /\ HasFlag(arguments[j].flags, _OUTPUT))
    /\ \A j, k \in 1..Len(arguments) :
          arguments[j].name = arguments[k].name => j = k

\* C8 as stated: for any flags, no name repeats within a list, and a name is
\* in more than one list only as a MODIFY required input, then in exactly
\* required_input and required_output.
C8_PartitionForAnyFlags ==
    a_intro # <<>> => Partitioned(a_intro[1])

\* C8 as amended: the same, and each list holds exactly the names its rule
\* selects, for arguments that are not flagged both input and output and
\* whose names stay distinct once '-' is replaced by '_'.
C8_PartitionForDirectedArguments ==
    (a_intro # <<>> /\ OneDirectionDistinctNames(a_intro[1].arguments)) =>
        /\ Partitioned(a_intro[1])
        /\ \A j \in 1..Len(a_intro[1].arguments) :
              LET nm == a_intro[1].arguments[j].name
                  flags == a_intro[1].arguments[j].flags
              IN /\ InSeq(nm, a_intro[1].required_input) <=> IsRequiredInput(flags)
                 /\ InSeq(nm, a_intro[1].required_output) <=>
                        (IsRequiredOutput(flags) \/ IsModifiedInput(flags))
                 /\ InSeq(nm, a_intro[1].optional_input) <=> IsOptionalInput(flags)
                 /\ InSeq(nm, a_intro[1].optional_output) <=> IsOptionalOutput(flags)

\* a MODIFY required input and an optional output have been classified
C8_Witness ==
    /\ a_intro # <<>>
    /\ OneDirectionDistinctNames(a_intro[1].arguments)
    /\ Len(a_intro[1].arguments) = 2
    /\ \E nm \in DOMAIN a_intro[1].details :
          /\ IsModifiedInput(a_intro[1].details[nm].flags)
          /\ ListsOf(a_intro[1], nm) = {1, 2}
    /\ Len(a_intro[1].optional_output) = 1

(* ---- C9 ---- *)
SameLists(x, y) ==
    /\ x.required_input = y.required_input
    /\ x.optional_input = y.optional_input
    /\ x.required_output = y.required_output
    /\ x.optional_output = y.optional_output

\* C9: an entry of the cache is always a completely built Introspect of a
\* registered operation, whatever the interleaving; every get that has
\* returned gave the lists of that Introspect; a get of an unregistered name
\* raised "no such operation" and left no entry.
C9_CacheNeverTorn ==
    /\ \A nm \in DOMAIN introspect_cache :
          /\ nm \in KnownOps
          /\ introspect_cache[nm] = Introspect(nm)
    /\ \A t \in Threads :
          t_ret[t] # <<>> =>
             IF t_name[t] \in KnownOps
             THEN /\ t_ret[t][1].ok
                  /\ SameLists(t_ret[t][1].intro, Introspect(t_name[t]))
             ELSE /\ ~t_ret[t][1].ok
                  /\ t_ret[t][1].err = ErrNoSuchOperation(t_name[t])
                  /\ t_name[t] \notin DOMAIN introspect_cache

\* one thread has its result while another is about to store a second build
C9_Witness ==
    \E t1 \in Threads, t2 \in Threads :
        /\ t1 # t2
        /\ t_name[t1] = t_name[t2]
        /\ t_name[t1] \in KnownOps
        /\ t_pc[t1] = "store"
        /\ t_pc[t2] = "idle"
        /\ t_ret[t2] # <<>>
        /\ t_name[t1] \in DOMAIN introspect_cache

(* ---- C10 ---- *)
IsPrefix(x, y) == Len(x) <= Len(y) /\ \A i \in 1..Len(x) : x[i] = y[i]

\* the optional outputs requested, in optional_output order
RequestedInOrder ==
    SelectSeq(intro[1].optional_output,
              LAMBDA n : \E i \in 1..Len(kwargs) : kwargs[i].name = n)

\* what a complete call does to its operation
Lifecycle ==
    << Ev("set_string", <<>>) >>
    \o [i \in 1..Len(intro[1].required_input) |-> Ev("set", intro[1].required_input[i])]
    \o [i \in 1..Len(kwargs) |-> Ev("set", kwargs[i].name)]
    \o << Ev("build", <<>>) >>
    \o [i \in 1..Len(intro[1].required_output) |-> Ev("get", intro[1].required_output[i])]
    \o [i \in 1..Len(RequestedInOrder) |-> Ev("get", RequestedInOrder[i])]
    \o << Ev("unref", <<>>) >>

\* C10: what has been done to the operation of a call is always a prefix of
\* option string, required inputs in order, named arguments, one build,
\* required outputs, requested optional outputs, one release; a call that
\* returns has done all of it, a call that failed has read and released
\* nothing.
C10_Lifecycle ==
    (pc # "idle" /\ intro # <<>>) =>
        /\ IsPrefix(op.log, Lifecycle)
        /\ pc = "done" => op.log = Lifecycle
        /\ pc = "failed" =>
              \A i \in 1..Len(op.log) : op.log[i].ev \notin {"get", "unref"}
        /\ pc \in {"outputs", "optional", "finish"} =>
              \E i \in 1..Len(op.log) : op.log[i].ev = "build"

\* add has returned after two required inputs, two named arguments, the
\* build, two reads and the release
C10_Witness ==
    /\ pc = "done"
    /\ operation_name = "add"
    /\ Len(kwargs) = 2
    /\ Len(op.log) = 9
    /\ op.log[9].ev = "unref"

====
